---------------------------- MODULE Spec2Model ----------------------------
(***************************************************************************)
(* Model of osint.py (OSINT SOC Toolkit): the concurrent port scanner      *)
(* escanear_puertos_comunes / escan_puerto and the lookup pipeline of      *)
(* main.                                                                   *)
(*                                                                         *)
(* Scaling.  The program scans the 23 entries of PUERTOS_COMUNES on a pool *)
(* of 20 threads.  The model scans the first NumPorts entries of the table *)
(* on a pool of MaxWorkers threads, keeping the table larger than the      *)
(* pool, so that tasks wait in the pool's queue as they do in the program. *)
(* Every statement of the pool is written in terms of MaxWorkers.          *)
(***************************************************************************)
EXTENDS Integers, Sequences, FiniteSets, TLC

\* ------------------------------------------------------------------ bounds

\* Ports of the table that are scanned (the program scans all 23).
NumPorts == 3

\* Threads of the pool (the program: ThreadPoolExecutor(max_workers=20)).
MaxWorkers == 2

\* --------------------------------------------------------------- constants

\* escan_puerto(ip, puerto, timeout=1): the timeout of the liveness socket.
LivenessTimeout == 1

\* banner_sock.settimeout(2)
BannerTimeout == 2

\* The table, in insertion order.
PUERTOS_COMUNES ==
    << <<21, "FTP">>, <<22, "SSH">>, <<23, "Telnet">>, <<25, "SMTP">>,
       <<53, "DNS">>, <<80, "HTTP">>, <<110, "POP3">>, <<111, "RPC">>,
       <<135, "RPC">>, <<139, "NetBIOS">>, <<143, "IMAP">>, <<443, "HTTPS">>,
       <<445, "SMB">>, <<993, "IMAPS">>, <<995, "POP3S">>, <<1723, "PPTP">>,
       <<3306, "MySQL">>, <<3389, "RDP">>, <<5432, "PostgreSQL">>,
       <<5900, "VNC">>, <<6379, "Redis">>, <<8080, "HTTP-Alt">>,
       <<8443, "HTTPS-Alt">> >>

\* list(PUERTOS_COMUNES.keys()), cut to the model's bound.
puertos_a_escanear == [k \in 1..NumPorts |-> PUERTOS_COMUNES[k][1]]

\* PUERTOS_COMUNES.get(puerto, 'desconocido')
Servicio(puerto) ==
    IF \E k \in 1..Len(PUERTOS_COMUNES) : PUERTOS_COMUNES[k][1] = puerto
    THEN LET k == CHOOSE j \in 1..Len(PUERTOS_COMUNES) : PUERTOS_COMUNES[j][1] = puerto
         IN  PUERTOS_COMUNES[k][2]
    ELSE "desconocido"

\* Python's None; a value v that is not None is modelled as <<v>>.
None == << >>

Tasks == 1..NumPorts

\* What the peer sends back to the HEAD request (recv(1024), decoded).
Banners == {"HTTP/1.1 200 OK"}

\* tipos of consultar_dns
tipos == <<"A", "AAAA", "MX", "TXT", "NS", "CNAME">>

VARIABLES
    mpc,              \* position of main
    args,             \* [dominio, output]: the parsed command line
    resultados,       \* the report of main
    dns_i,            \* consultar_dns: index of the type being resolved
    dns_res,          \* consultar_dns: resultados (the types that have records)
    fallos,           \* which lookups failed, and how (history)
    archivo,          \* the content of the --output file (None: not written)
    spc,              \* position of escanear_puertos_comunes
    nsub,             \* futures submitted so far
    it,               \* futures the for loop has consumed
    task,             \* per future: the state of its escan_puerto call
    numThreads,       \* threads the pool has created
    puertos_abiertos, \* the list being built
    raising,          \* an exception is propagating out of the with block
    returned,         \* the value escanear_puertos_comunes returned
    adelantado        \* history: a probe ended before one submitted earlier

vars == <<mpc, args, resultados, dns_i, dns_res, fallos, archivo, spc, nsub, it,
          task, numThreads, puertos_abiertos, raising, returned, adelantado>>

mainVars == <<mpc, args, resultados, dns_i, dns_res, fallos, archivo>>
scanVars == <<spc, nsub, it, task, numThreads, puertos_abiertos,
              raising, returned, adelantado>>

\* ------------------------------------------------------------ escan_puerto
\* One action per blocking network call of escan_puerto; the statements
\* between two calls touch only the locals of the call and belong to the
\* action of the call they follow.

NewTask == [st |-> "new", pc |-> "connect", sock |-> "none", banner_sock |-> "none",
            conn |-> "none", bfail |-> "none", banner |-> "", ret |-> None,
            exc |-> FALSE]

\* Blocking without the settimeout call: a stalled call never ends.
Blocking_sin_timeout(o, t) == IF o = "stall" THEN "hung" ELSE o

\* A blocking socket call under settimeout(t): a call the peer never answers
\* ends by timeout expiry when a timeout is set, and never ends otherwise.
Blocking(o, t) ==
    IF o = "stall" THEN (IF t > 0 THEN "timeout" ELSE "hung") ELSE o

\* The call has ended with value r: the future is done.
Finish(t, r) == [t EXCEPT !.st = "done", !.pc = "end", !.ret = r]

\* The outer handler re-raising instead of returning None.
ProbeExcept_raise(t) == [t EXCEPT !.st = "done", !.pc = "end", !.ret = None, !.exc = TRUE]

\* except: return None   (the outer handler)
ProbeExcept(t) == Finish(t, None)

\* The dictionary escan_puerto returns for an open port.
Record(puerto, banner) ==
    [puerto |-> puerto, estado |-> "abierto", servicio |-> Servicio(puerto),
     banner |-> banner]

\* return {...}
ProbeReturn(i, t) == Finish(t, <<Record(puertos_a_escanear[i], t.banner)>>)

\* The banner phase without its own handler: the failure reaches the outer one.
BannerExcept_outer(i, t, where) ==
    [t EXCEPT !.bfail = where, !.st = "done", !.pc = "end", !.ret = None]

\* except: banner = "No disponible"   (the inner handler), then return {...}
BannerExcept(i, t, where) ==
    ProbeReturn(i, [t EXCEPT !.bfail = where, !.banner = "No disponible"])

\* The test of resultado taking a timed-out connect for an open port.
AfterConnect_timeout_open(t) ==
    IF t.conn \in {"ok", "timeout"}
    THEN [t EXCEPT !.sock = "closed", !.pc = "bconnect"]
    ELSE [t EXCEPT !.sock = "closed", !.st = "done", !.pc = "end", !.ret = None]

\* sock.close(); if resultado == 0: (banner phase) ... return None
AfterConnect(t) ==
    IF t.conn = "ok"
    THEN [t EXCEPT !.sock = "closed", !.pc = "bconnect"]
    ELSE Finish([t EXCEPT !.sock = "closed"], None)

\* banner_sock.close(); return {...}
AfterRecv(i, t) == ProbeReturn(i, [t EXCEPT !.banner_sock = "closed"])

Running(i) == task[i].st = "running"

\* The worker's step leaves the task in state t.
Step(i, t) ==
    /\ task' = [task EXCEPT ![i] = t]
    /\ adelantado' = (adelantado \/ (t.st = "done" /\ \E j \in 1..(i - 1) : task[j].st # "done"))
    /\ UNCHANGED <<mainVars, spc, nsub, it, numThreads, puertos_abiertos,
                   raising, returned>>

\* sock = socket.socket(...); sock.settimeout(timeout);
\* resultado = sock.connect_ex((ip, puerto)); sock.close(); if resultado == 0
ProbeConnect(i) ==
    /\ Running(i) /\ task[i].pc = "connect"
    /\ \/ Step(i, ProbeExcept([task[i] EXCEPT !.conn = "nosock"]))
       \/ \E o \in {"ok", "refused", "stall", "raise"} :
            LET r == Blocking(o, LivenessTimeout)
                t == [task[i] EXCEPT !.sock = "open", !.conn = r]
            IN  Step(i, CASE r = "hung"  -> [t EXCEPT !.pc = "hung"]
                          [] r = "raise" -> ProbeExcept(t)
                          [] OTHER       -> AfterConnect(t))

\* banner_sock = socket.socket(...); banner_sock.settimeout(2);
\* banner_sock.connect((ip, puerto))
BannerConnect(i) ==
    /\ Running(i) /\ task[i].pc = "bconnect"
    /\ \/ Step(i, BannerExcept(i, task[i], "socket"))
       \/ \E o \in {"ok", "refused", "stall"} :
            LET r == Blocking(o, BannerTimeout)
                t == [task[i] EXCEPT !.banner_sock = "open"]
            IN  Step(i, CASE r = "hung" -> [t EXCEPT !.pc = "hung"]
                          [] r = "ok"   -> [t EXCEPT !.pc = "bsend"]
                          [] OTHER      -> BannerExcept(i, t, "connect"))

\* banner_sock.send(b"HEAD / HTTP/1.0\r\n\r\n")
BannerSend(i) ==
    /\ Running(i) /\ task[i].pc = "bsend"
    /\ \E o \in {"ok", "reset", "stall"} :
         LET r == Blocking(o, BannerTimeout) IN
         Step(i, CASE r = "hung" -> [task[i] EXCEPT !.pc = "hung"]
                   [] r = "ok"   -> [task[i] EXCEPT !.pc = "brecv"]
                   [] OTHER      -> BannerExcept(i, task[i], "send"))

\* banner = banner_sock.recv(1024).decode('utf-8', errors='ignore')[:100];
\* banner_sock.close(); return {...}
BannerRecv(i) ==
    /\ Running(i) /\ task[i].pc = "brecv"
    /\ \E o \in {"ok", "reset", "stall"}, b \in Banners :
         LET r == Blocking(o, BannerTimeout) IN
         Step(i, CASE r = "hung" -> [task[i] EXCEPT !.pc = "hung"]
                   [] r = "ok"   -> AfterRecv(i, [task[i] EXCEPT !.banner = b])
                   [] OTHER      -> BannerExcept(i, task[i], "recv"))

\* A socket object the call left open is closed when the interpreter
\* reclaims it, at a moment the program does not control.
Finalize(i) ==
    /\ task[i].st = "done"
    /\ \/ /\ task[i].sock = "open"
          /\ task' = [task EXCEPT ![i].sock = "closed"]
       \/ /\ task[i].banner_sock = "open"
          /\ task' = [task EXCEPT ![i].banner_sock = "closed"]
    /\ UNCHANGED <<mainVars, spc, nsub, it, numThreads, puertos_abiertos,
                   raising, returned, adelantado>>

ProbeStep(i) ==
    \/ ProbeConnect(i)
    \/ BannerConnect(i)
    \/ BannerSend(i)
    \/ BannerRecv(i)

\* ------------------------------------------------ escanear_puertos_comunes

Inflight == Cardinality({i \in Tasks : task[i].st = "running"})

Queued == {i \in Tasks : task[i].st = "queued"}

\* A thread of the pool is free to take a work item.
WorkerFree == Inflight < numThreads

\* The loop visiting the futures in the reverse of the order of submission.
FutureAt_reversed(k) == NumPorts + 1 - k

\* The future the for loop visits at its k-th iteration: futures is a dict,
\* which iterates in insertion order, the order of submission.
FutureAt(k) == k

\* Neither future.result() nor the end of the with block waiting.
Completed_no_wait(i) == TRUE

\* future.result() / shutdown(wait=True) return once the call has ended.
Completed(i) == task[i].st = "done"

\* The list rebound to the new record instead of appended to.
Collected_overwrite(lst, resultado) ==
    IF resultado # None THEN <<resultado[1]>> ELSE lst

\* if resultado: puertos_abiertos.append(resultado)
Collected(lst, resultado) ==
    IF resultado # None THEN Append(lst, resultado[1]) ELSE lst

\* A pool that adds a thread at every submit.
AdjustThreadCount_unbounded(n) == n + 1

\* ThreadPoolExecutor(max_workers=...): a submit adds a thread to the pool
\* while the pool has fewer than max_workers threads.  (An interpreter that
\* reuses an idle thread instead creates fewer threads; its runs are runs
\* of this pool in which a thread stays idle.)
AdjustThreadCount(n) == IF n < MaxWorkers THEN n + 1 ELSE n

\* executor.submit(escan_puerto, ip, puerto): queue the work item.
Submit ==
    /\ spc = "submit"
    /\ nsub < NumPorts
    /\ nsub' = nsub + 1
    /\ task' = [task EXCEPT ![nsub + 1].st = "queued"]
    /\ numThreads' = AdjustThreadCount(numThreads)
    /\ spc' = IF nsub + 1 = NumPorts THEN "collect" ELSE "submit"
    /\ UNCHANGED <<mainVars, it, puertos_abiertos, raising, returned, adelantado>>

\* A worker thread takes the oldest work item of the queue and runs it.
Start(i) ==
    /\ i \in Queued
    /\ \A j \in Queued : i <= j
    /\ WorkerFree
    /\ task' = [task EXCEPT ![i].st = "running"]
    /\ UNCHANGED <<mainVars, spc, nsub, it, numThreads, puertos_abiertos,
                   raising, returned, adelantado>>

\* for future in futures: resultado = future.result(); if resultado: append
Collect ==
    /\ spc = "collect"
    /\ it < NumPorts
    /\ LET i == FutureAt(it + 1) IN
         /\ Completed(i)
         /\ IF task[i].exc
            THEN /\ raising' = TRUE
                 /\ spc' = "exit"
                 /\ UNCHANGED <<it, puertos_abiertos>>
            ELSE /\ puertos_abiertos' = Collected(puertos_abiertos, task[i].ret)
                 /\ it' = it + 1
                 /\ spc' = IF it + 1 = NumPorts THEN "exit" ELSE "collect"
                 /\ UNCHANGED raising
    /\ UNCHANGED <<mainVars, nsub, task, numThreads, returned, adelantado>>

\* The end of the with block (shutdown(wait=True)), then return puertos_abiertos.
Exit ==
    /\ spc = "exit"
    /\ \A i \in 1..nsub : Completed(i)
    /\ IF raising
       THEN spc' = "raised" /\ UNCHANGED returned
       ELSE spc' = "returned" /\ returned' = <<puertos_abiertos>>
    /\ UNCHANGED <<mainVars, nsub, it, task, numThreads, puertos_abiertos,
                   raising, adelantado>>

ScanStep == Submit \/ Collect \/ Exit

NextScan ==
    \/ ScanStep
    \/ \E i \in Tasks : Start(i)
    \/ \E i \in Tasks : ProbeStep(i)
    \/ \E i \in Tasks : Finalize(i)

InitScanVars ==
    /\ nsub = 0
    /\ it = 0
    /\ task = [i \in Tasks |-> NewTask]
    /\ numThreads = 0
    /\ puertos_abiertos = << >>
    /\ raising = FALSE
    /\ returned = None
    /\ adelantado = FALSE

InitMainVars ==
    /\ resultados = [whois |-> None, dns |-> None, geo |-> None, puertos |-> None]
    /\ dns_i = 1
    /\ dns_res = {}
    /\ fallos = {}
    /\ archivo = None

\* escanear_puertos_comunes called on its own.
Init ==
    /\ mpc = "direct"
    /\ args = [dominio |-> FALSE, output |-> FALSE]
    /\ InitMainVars
    /\ spc = "submit"
    /\ InitScanVars

Spec == Init /\ [][NextScan]_vars

\* The steps of the calling thread and of the threads of the pool.
Progress ==
    \/ ScanStep
    \/ \E i \in Tasks : Start(i)
    \/ \E i \in Tasks : ProbeStep(i)

\* The threads are scheduled by the operating system: while some thread can
\* take a step, a step is eventually taken.
LiveSpec == Spec /\ WF_vars(Progress)

\* -------------------------------------------------------------------- main

\* if args.dominio: ... elif args.ip: ...
Dispatch ==
    /\ mpc = "start"
    /\ mpc' = IF args.dominio THEN "whois" ELSE "geo"
    /\ UNCHANGED <<args, resultados, dns_i, dns_res, fallos, archivo, scanVars>>

\* consultar_whois: the record, or None on any exception.
consultar_whois(ok) == IF ok THEN <<"whois">> ELSE None

\* resultados['whois'] = consultar_whois(args.dominio, args.verbose)
Whois ==
    /\ mpc = "whois"
    /\ \E ok \in BOOLEAN :
         /\ resultados' = [resultados EXCEPT !.whois = consultar_whois(ok)]
         /\ fallos' = IF ok THEN fallos ELSE fallos \cup {"whois"}
    /\ mpc' = "dns"
    /\ UNCHANGED <<args, dns_i, dns_res, archivo, scanVars>>

\* What consultar_dns returns when the loop over tipos ends: resultados.
DnsReturn(res) == <<res>>

\* consultar_dns giving up on any resolver error.
DnsOutcome_error_returns(o, tipo, res) ==
    CASE o = "answer"   -> <<"continue", res \cup {tipo}>>
      [] o = "NoAnswer" -> <<"continue", res>>
      [] OTHER          -> <<"return", None>>

\* What consultar_dns does with the outcome o of resolve(dominio, tipo):
\* <<"continue", resultados>> or <<"return", value>>.
DnsOutcome(o, tipo, res) ==
    CASE o = "answer"   -> <<"continue", res \cup {tipo}>>
      [] o = "NoAnswer" -> <<"continue", res>>
      [] o = "NXDOMAIN" -> <<"return", None>>
      [] OTHER          -> <<"continue", res>>

\* resultados['dns'] = consultar_dns(...): one iteration of the loop over tipos.
Dns ==
    /\ mpc = "dns"
    /\ \E o \in {"answer", "NoAnswer", "NXDOMAIN", "error"} :
         LET d == DnsOutcome(o, tipos[dns_i], dns_res) IN
         /\ fallos' = CASE o = "NXDOMAIN" -> fallos \cup {"nxdomain"}
                        [] o = "error"    -> fallos \cup {"dns-error"}
                        [] OTHER          -> fallos
         /\ IF d[1] = "return"
            THEN /\ resultados' = [resultados EXCEPT !.dns = d[2]]
                 /\ mpc' = "output"
                 /\ UNCHANGED <<dns_i, dns_res>>
            ELSE IF dns_i = Len(tipos)
            THEN /\ resultados' = [resultados EXCEPT !.dns = DnsReturn(d[2])]
                 /\ mpc' = "output"
                 /\ dns_res' = d[2]
                 /\ UNCHANGED dns_i
            ELSE /\ dns_res' = d[2]
                 /\ dns_i' = dns_i + 1
                 /\ UNCHANGED <<resultados, mpc>>
    /\ UNCHANGED <<args, archivo, scanVars>>

\* geo_ip: the record, or None on a non-success status or any exception.
geo_ip(ok) == IF ok THEN <<"geo">> ELSE None

\* resultados['geo'] = geo_ip(args.ip, args.verbose); then the scanner is called.
Geo ==
    /\ mpc = "geo"
    /\ spc = "idle"
    /\ \E ok \in BOOLEAN :
         /\ resultados' = [resultados EXCEPT !.geo = geo_ip(ok)]
         /\ fallos' = IF ok THEN fallos ELSE fallos \cup {"geo"}
    /\ mpc' = "puertos"
    /\ spc' = "submit"
    /\ UNCHANGED <<args, dns_i, dns_res, archivo, nsub, it, task, numThreads,
                   puertos_abiertos, raising, returned, adelantado>>

\* resultados['puertos'] = escanear_puertos_comunes(args.ip, args.verbose)
Puertos ==
    /\ mpc = "puertos"
    /\ spc \in {"returned", "raised"}
    /\ IF spc = "raised"
       THEN mpc' = "fatal" /\ UNCHANGED resultados
       ELSE /\ resultados' = [resultados EXCEPT !.puertos = returned]
            /\ mpc' = "output"
    /\ UNCHANGED <<args, dns_i, dns_res, fallos, archivo, scanVars>>

\* if args.output: json.dump(resultados, f); a failing write is fatal.
Guardar ==
    /\ mpc = "output"
    /\ IF args.output
       THEN \E ok \in BOOLEAN :
              IF ok THEN archivo' = <<resultados>> /\ mpc' = "fin"
              ELSE mpc' = "fatal" /\ UNCHANGED archivo
       ELSE mpc' = "fin" /\ UNCHANGED archivo
    /\ UNCHANGED <<args, resultados, dns_i, dns_res, fallos, scanVars>>

MainStep == Dispatch \/ Whois \/ Dns \/ Geo \/ Puertos \/ Guardar

NextMain == MainStep \/ NextScan

\* main, for every command line.
InitMain ==
    /\ mpc = "start"
    /\ args \in [dominio : BOOLEAN, output : BOOLEAN]
    /\ InitMainVars
    /\ spc = "idle"
    /\ InitScanVars

SpecMain == InitMain /\ [][NextMain]_vars

\* ------------------------------------------------------------------ claims

\* The list escanear_puertos_comunes returned.
Lista == returned[1]

\* The positions of the returned list that hold a record of port p.
RecordsOf(p) == {k \in 1..Len(Lista) : Lista[k].puerto = p}

Retornado == spc = "returned"

\* C1: at every moment the number of escan_puerto calls that have started
\* and not yet returned is at most the size of the pool, although more ports
\* than that are submitted up front.
C1_InflightBound == Inflight <= MaxWorkers

\* C1's case: every port is submitted, the pool is full and a probe waits.
C1_Witness == nsub = NumPorts /\ Inflight = MaxWorkers /\ Queued # {}

\* C2: when escanear_puertos_comunes has returned, every probe it submitted,
\* one per port of the table, has run to its end; an open port found early
\* cancels nothing.
C2_ReturnsAfterAll ==
    Retornado => nsub = NumPorts /\ \A i \in Tasks : task[i].st = "done"

\* C2's case: the first port was found open and a later one was still probed.
C2_Witness ==
    /\ Retornado
    /\ task[1].ret # None
    /\ \E j \in Tasks : j > 1 /\ task[j].conn = "refused"

\* C3: every probe that returned a record contributes that record exactly
\* once to the returned list, the list holds nothing else, and no port
\* appears in it twice.
C3_ExactlyOnce ==
    Retornado =>
      /\ \A i \in Tasks :
           task[i].ret # None =>
             Cardinality({k \in 1..Len(Lista) : Lista[k] = task[i].ret[1]}) = 1
      /\ Len(Lista) = Cardinality({i \in Tasks : task[i].ret # None})
      /\ \A k1, k2 \in 1..Len(Lista) : Lista[k1].puerto = Lista[k2].puerto => k1 = k2

\* C3's case: several probes returned a record, not in the order submitted.
C3_Witness ==
    Retornado /\ adelantado /\ Cardinality({i \in Tasks : task[i].ret # None}) >= 2

\* C4: the returned list has a record for port p exactly when the liveness
\* connect to p succeeded: then exactly one, with estado 'abierto' and the
\* table's label; when the connect was refused, timed out or failed, none.
C4_RecordIffOpen ==
    Retornado =>
      \A i \in Tasks :
        LET r == RecordsOf(puertos_a_escanear[i]) IN
        IF task[i].conn = "ok"
        THEN /\ Cardinality(r) = 1
             /\ \A k \in r : /\ Lista[k].estado = "abierto"
                             /\ Lista[k].servicio = PUERTOS_COMUNES[i][2]
        ELSE r = {}

\* C4's case: one port open, one refused and one timed out.
C4_Witness ==
    /\ Retornado
    /\ \E i, j, k \in Tasks :
         task[i].conn = "ok" /\ task[j].conn = "refused" /\ task[k].conn = "timeout"

\* C5: no failure of a probe propagates out of escanear_puertos_comunes or
\* aborts the other probes: the scanner never ends by an exception, and when
\* it has returned every probe has ended and every open port has its record.
C5_FailuresIsolated ==
    /\ spc # "raised"
    /\ ~raising
    /\ \A i \in Tasks : ~task[i].exc
    /\ Retornado =>
         \A i \in Tasks :
           /\ task[i].st = "done"
           /\ task[i].conn = "ok" => RecordsOf(puertos_a_escanear[i]) # {}

\* C5's case: a probe failed by an exception, another could not create its
\* socket, and a port probed after them was open and is in the list.
C5_Witness ==
    /\ Retornado
    /\ \E i, j, k \in Tasks :
         /\ i < k /\ j < k
         /\ task[i].conn = "raise" /\ task[j].conn = "nosock"
         /\ task[k].conn = "ok" /\ RecordsOf(puertos_a_escanear[k]) # {}

\* C6: a probe whose banner phase failed, at the second socket, connect, send
\* or receive, still ends with an open-port record, whose banner is the
\* sentinel.
C6_BannerFailure ==
    \A i \in Tasks :
      (task[i].st = "done" /\ task[i].bfail # "none") =>
        /\ task[i].ret # None
        /\ task[i].ret[1].estado = "abierto"
        /\ task[i].ret[1].puerto = puertos_a_escanear[i]
        /\ task[i].ret[1].banner = "No disponible"

\* C6's case: the scan has returned a record of a probe whose receive failed
\* and one of a probe whose second connect failed.
C6_Witness ==
    /\ Retornado
    /\ \E i, j \in Tasks :
         /\ task[i].bfail = "recv" /\ RecordsOf(puertos_a_escanear[i]) # {}
         /\ task[j].bfail = "connect"

\* C7: when a probe has returned, every socket it opened has been closed.
C7_SocketsClosed ==
    \A i \in Tasks :
      task[i].st = "done" => task[i].sock # "open" /\ task[i].banner_sock # "open"

\* C8: escanear_puertos_comunes eventually returns, with every probe ended,
\* and a probe whose liveness connect never completed has ended, by timeout
\* expiry, with no result.
C8_EventuallyReturns ==
    <>(/\ Retornado
       /\ \A i \in Tasks :
            /\ task[i].st = "done"
            /\ task[i].conn = "timeout" => task[i].ret = None)

\* C8's case: the scan has returned although a liveness connect stalled and a
\* banner phase failed in its receive.
C8_Witness ==
    /\ Retornado
    /\ \E i, j \in Tasks : task[i].conn = "timeout" /\ task[j].bfail = "recv"

Reported == mpc \in {"output", "fin"}

\* C9 as stated: every failure of a lookup, any DNS error included, leaves
\* that lookup's field null.
C9_AnyFailureIsNull ==
    Reported =>
      /\ "whois" \in fallos => resultados.whois = None
      /\ "geo" \in fallos => resultados.geo = None
      /\ (fallos \cap {"nxdomain", "dns-error"}) # {} => resultados.dns = None

\* C9, amended: a WHOIS error, an NXDOMAIN or a geolocation error nulls that
\* lookup's field and no other; another DNS error only omits a record type
\* and the dns field is the mapping of the types found; the other lookup of
\* the path has run and its result is kept; the report is written when
\* --output is given and the write succeeds, and only a failed write is fatal.
C9_FaultIsolation ==
    /\ Reported =>
         /\ args.dominio =>
              /\ (resultados.whois = None) <=> ("whois" \in fallos)
              /\ (resultados.dns = None) <=> ("nxdomain" \in fallos)
              /\ "nxdomain" \notin fallos => resultados.dns = <<dns_res>>
              /\ resultados.geo = None /\ resultados.puertos = None
         /\ ~args.dominio =>
              /\ (resultados.geo = None) <=> ("geo" \in fallos)
              /\ resultados.puertos # None /\ resultados.puertos = returned
              /\ resultados.whois = None /\ resultados.dns = None
    /\ mpc = "fin" /\ args.output => archivo = <<resultados>>
    /\ mpc = "fatal" => args.output /\ spc # "raised"

\* C9's case: WHOIS failed, a DNS type failed by an error other than
\* NXDOMAIN, the other types were still resolved and the report was written.
C9_Witness ==
    /\ mpc = "fin"
    /\ {"whois", "dns-error"} \subseteq fallos
    /\ "nxdomain" \notin fallos
    /\ resultados.dns # None /\ resultados.dns[1] # {}
    /\ archivo = <<resultados>>

\* The ports of the table that answered the liveness connect, in table order.
OpenInTableOrder ==
    LET IsOpen(p) == \E i \in Tasks : puertos_a_escanear[i] = p /\ task[i].conn = "ok"
    IN  SelectSeq(puertos_a_escanear, IsOpen)

\* C10: the ports of the returned list are the open ports in the order of the
\* table, whatever the order in which the probes ended.
C10_TableOrder ==
    Retornado => [k \in 1..Len(Lista) |-> Lista[k].puerto] = OpenInTableOrder

\* C10's case: all ports are open and a probe ended before an earlier one.
C10_Witness ==
    Retornado /\ adelantado /\ \A i \in Tasks : task[i].conn = "ok"

=============================================================================
